---- MODULE Spec2Model ----
(***************************************************************************)
(* Model of facet-dom/src/naming.rs: to_element_name and dom_key.          *)
(*                                                                         *)
(* A Rust `char` is modelled by its Unicode scalar value (a natural        *)
(* number) and a `&str`/`String` by a sequence of such values.  A          *)
(* `Cow<str>` is a record [tag, src, val]: tag is "Borrowed" or "Owned",   *)
(* src names the string a borrowed value aliases ("name" or "rename") and  *)
(* is "alloc" for a newly owned string, val is the string value.           *)
(* An `Option<&str>` is a sequence of length at most one.                  *)
(*                                                                         *)
(* `AsLowerCamelCase` is the Display adaptor of the `heck` crate that      *)
(* naming.rs re-exports and calls; its transform is modelled below as the  *)
(* crate computes it (split on non-alphanumeric characters, then the       *)
(* case-mode scan of every piece).                                         *)
(***************************************************************************)
EXTENDS Naturals, Sequences, FiniteSets

VARIABLES name, rename, result, pc, orig
vars == <<name, rename, result, pc, orig>>

----------------------------------------------------------------------------
(* Bounds of the model *)
MaxLen == 4
MaxRenameLen == 2

----------------------------------------------------------------------------
(* Characters.  The Unicode tables are restricted to the code points the   *)
(* model draws its strings from; every other code point used here ('_',    *)
(* '-', ' ') has no case and is not alphanumeric.                          *)

\* char::is_ascii_digit: '0'..='9'
is_ascii_digit(c) == c \in 48..57

\* char::is_lowercase: a-z, sharp s, e acute, final sigma, sigma
is_lowercase(c) == c \in 97..122 \/ c \in {223, 233, 962, 963}

\* char::is_uppercase: A-Z, E acute, capital sigma
is_uppercase(c) == c \in 65..90 \/ c \in {201, 931}

\* char::is_numeric: ASCII digits, ARABIC-INDIC DIGIT THREE, FULLWIDTH DIGIT ONE
is_numeric(c) == c \in 48..57 \/ c \in {1635, 65297}

\* char::is_alphanumeric
is_alphanumeric(c) == is_lowercase(c) \/ is_uppercase(c) \/ is_numeric(c)

\* char::to_lowercase (an iterator of chars)
to_lowercase(c) ==
    IF c \in 65..90 \/ c = 201 THEN <<c + 32>>
    ELSE IF c = 931 THEN <<963>>
    ELSE <<c>>

\* char::to_uppercase (an iterator of chars; sharp s expands to "SS")
to_uppercase(c) ==
    IF c \in 97..122 \/ c = 233 THEN <<c - 32>>
    ELSE IF c = 223 THEN <<83, 83>>
    ELSE IF c \in {962, 963} THEN <<931>>
    ELSE <<c>>

----------------------------------------------------------------------------
(* heck: lowercase, capitalize, transform, AsLowerCamelCase *)

\* heck::lowercase: every char lower-cased, a final capital sigma becomes
\* the final-sigma form
RECURSIVE lowercase(_)
lowercase(s) ==
    IF s = <<>> THEN <<>>
    ELSE IF Head(s) = 931 /\ Len(s) = 1 THEN <<962>>
    ELSE to_lowercase(Head(s)) \o lowercase(Tail(s))

\* heck::capitalize: first char upper-cased, the rest through lowercase
capitalize(s) ==
    IF s = <<>> THEN <<>>
    ELSE to_uppercase(Head(s)) \o lowercase(Tail(s))

\* str::split(|c| !c.is_alphanumeric()): the pieces between separators,
\* empty pieces included
RECURSIVE split(_)
split(s) ==
    IF \A k \in 1..Len(s) : is_alphanumeric(s[k]) THEN <<s>>
    ELSE LET k == CHOOSE j \in 1..Len(s) :
                     /\ ~is_alphanumeric(s[j])
                     /\ \A h \in 1..(j-1) : is_alphanumeric(s[h])
         IN  <<SubSeq(s, 1, k-1)>> \o split(SubSeq(s, k+1, Len(s)))

\* scan without the boundary in front of the last capital of a run of
\* capitals ("ABa" stays one word)
RECURSIVE scan_no_acronym(_, _, _, _)
scan_no_acronym(word, i, init, mode) ==
    IF i > Len(word) THEN <<>>
    ELSE IF i = Len(word) THEN <<SubSeq(word, init, Len(word))>>
    ELSE LET c == word[i]
             next == word[i+1]
             next_mode == IF is_lowercase(c) THEN "Lowercase"
                          ELSE IF is_uppercase(c) THEN "Uppercase"
                          ELSE mode
         IN  IF next_mode = "Lowercase" /\ is_uppercase(next)
             THEN <<SubSeq(word, init, i)>> \o scan_no_acronym(word, i+1, i+1, "Boundary")
             ELSE scan_no_acronym(word, i+1, init, next_mode)

\* The while loop of heck::transform over one piece: i is the position of
\* the current char, init the start of the current word, mode the WordMode.
\* Returns the words handed to with_word, in order.
RECURSIVE scan(_, _, _, _)
scan(word, i, init, mode) ==
    IF i > Len(word) THEN <<>>
    ELSE IF i = Len(word) THEN <<SubSeq(word, init, Len(word))>>
    ELSE LET c == word[i]
             next == word[i+1]
             next_mode == IF is_lowercase(c) THEN "Lowercase"
                          ELSE IF is_uppercase(c) THEN "Uppercase"
                          ELSE mode
         IN  IF next_mode = "Lowercase" /\ is_uppercase(next)
             THEN <<SubSeq(word, init, i)>> \o scan(word, i+1, i+1, "Boundary")
             ELSE IF mode = "Uppercase" /\ is_uppercase(c) /\ is_lowercase(next)
             THEN <<SubSeq(word, init, i-1)>> \o scan(word, i+1, i, "Boundary")
             ELSE scan(word, i+1, init, next_mode)

\* heck::transform: the words of every piece, in order
RECURSIVE transform_pieces(_)
transform_pieces(pieces) ==
    IF pieces = <<>> THEN <<>>
    ELSE scan(Head(pieces), 1, 1, "Boundary") \o transform_pieces(Tail(pieces))

transform(s) == transform_pieces(split(s))

\* The with_word closure of AsLowerCamelCase applied to the words after the
\* first one
RECURSIVE capitalize_all(_)
capitalize_all(ws) ==
    IF ws = <<>> THEN <<>>
    ELSE capitalize(Head(ws)) \o capitalize_all(Tail(ws))

\* format!("{}", AsLowerCamelCase(name)): first word through lowercase, the
\* others through capitalize, the boundary closure writes nothing
AsLowerCamelCase(s) ==
    LET ws == transform(s)
    IN  IF ws = <<>> THEN <<>>
        ELSE lowercase(Head(ws)) \o capitalize_all(Tail(ws))

----------------------------------------------------------------------------
(* naming.rs *)

Borrowed(from, s) == [tag |-> "Borrowed", src |-> from, val |-> s]
Owned(s) == [tag |-> "Owned", src |-> "alloc", val |-> s]

None == <<>>
Some(r) == <<r>>

\* starts_with testing char::is_numeric instead of char::is_ascii_digit
starts_with_numeric(s) == s # <<>> /\ is_numeric(s[1])

\* name.starts_with(|c: char| c.is_ascii_digit())
starts_with_ascii_digit(s) == s # <<>> /\ is_ascii_digit(s[1])

\* to_element_name that runs the case conversion in the digit branch too
to_element_name_converting_digits(n) ==
    IF starts_with_ascii_digit(n) THEN Owned(<<95>> \o AsLowerCamelCase(n))
    ELSE LET converted == AsLowerCamelCase(n)
         IN  IF converted = n THEN Borrowed("name", n)
             ELSE Owned(converted)

\* to_element_name without the fast path: the converted string is always
\* returned as a new owned string
to_element_name_always_owned(n) ==
    IF starts_with_ascii_digit(n) THEN Owned(<<95>> \o n)
    ELSE Owned(AsLowerCamelCase(n))

\* to_element_name reading the first char with chars().next().unwrap()
to_element_name_unwrap(n) ==
    IF n = <<>> THEN [tag |-> "Panic", src |-> "none", val |-> <<>>]
    ELSE IF is_ascii_digit(n[1]) THEN Owned(<<95>> \o n)
    ELSE LET converted == AsLowerCamelCase(n)
         IN  IF converted = n THEN Borrowed("name", n)
             ELSE Owned(converted)

to_element_name(n) ==
    IF starts_with_ascii_digit(n) THEN Owned(<<95>> \o n)
    ELSE LET converted == AsLowerCamelCase(n)
         IN  IF converted = n THEN Borrowed("name", n)
             ELSE Owned(converted)

\* dom_key applying the default convention to the override
dom_key_converting_rename(n, rn) ==
    IF rn # None THEN to_element_name(rn[1])
    ELSE to_element_name(n)

\* dom_key returning the raw name when there is no override
dom_key_raw_name(n, rn) ==
    IF rn # None THEN Borrowed("rename", rn[1])
    ELSE Borrowed("name", n)

dom_key(n, rn) ==
    IF rn # None THEN Borrowed("rename", rn[1])
    ELSE to_element_name(n)

----------------------------------------------------------------------------
(* Inputs *)

Alphabet == {97, 65, 66, 48, 95, 1635}

RECURSIVE StringsUpTo(_)
StringsUpTo(n) ==
    IF n = 0 THEN {<<>>}
    ELSE LET shorter == StringsUpTo(n - 1)
         IN  shorter \cup {Append(s, c) : s \in {t \in shorter : Len(t) = n - 1}, c \in Alphabet}

\* "Banana", "MyPlaylist", "field_name", "myPlaylist", "FOO_BAR", "0_Foo",
\* "-1x", a full-width digit then 'a', "aSIGMA", "a_sharp-s", "E-acute b"
DocExamples ==
    { <<66, 97, 110, 97, 110, 97>>,
      <<77, 121, 80, 108, 97, 121, 108, 105, 115, 116>>,
      <<102, 105, 101, 108, 100, 95, 110, 97, 109, 101>>,
      <<109, 121, 80, 108, 97, 121, 108, 105, 115, 116>>,
      <<70, 79, 79, 95, 66, 65, 82>>,
      <<48, 95, 70, 111, 111>>,
      <<45, 49, 120>>,
      <<65297, 97>>,
      <<97, 931>>,
      <<97, 95, 223>>,
      <<201, 98>> }

Names == StringsUpTo(MaxLen) \cup DocExamples
Renames == StringsUpTo(MaxRenameLen)

----------------------------------------------------------------------------
(* The calls *)

Init ==
    /\ name \in Names
    /\ orig = name
    /\ rename = None
    /\ result = [tag |-> "None", src |-> "none", val |-> <<>>]
    /\ pc = "start"

\* to_element_name(name)
CallToElementName ==
    /\ pc = "start"
    /\ result' = to_element_name(name)
    /\ pc' = "to_element_name"
    /\ UNCHANGED <<name, rename, orig>>

\* dom_key(name, Some(r))
CallDomKeySome ==
    /\ pc = "start"
    /\ \E r \in Renames :
          /\ rename' = Some(r)
          /\ result' = dom_key(name, Some(r))
    /\ pc' = "dom_key"
    /\ UNCHANGED <<name, orig>>

\* dom_key(name, None)
CallDomKeyNone ==
    /\ pc = "start"
    /\ rename' = None
    /\ result' = dom_key(name, None)
    /\ pc' = "dom_key"
    /\ UNCHANGED <<name, orig>>

\* to_element_name applied to the value a first to_element_name returned
Reapply ==
    /\ pc = "to_element_name"
    /\ name' = result.val
    /\ result' = to_element_name(result.val)
    /\ pc' = "reapplied"
    /\ UNCHANGED <<rename, orig>>

Next == CallToElementName \/ CallDomKeySome \/ CallDomKeyNone \/ Reapply

Spec == Init /\ [][Next]_vars

----------------------------------------------------------------------------
(* The lower-camel-case transform stated position by position, without the *)
(* scan: which characters start a word, and what is written for each.      *)

\* The case of the last cased character of s at positions from..to
\* ("none" when there is none)
RECURSIVE LastCased(_, _, _)
LastCased(s, from, to) ==
    IF to < from THEN "none"
    ELSE IF is_lowercase(s[to]) THEN "lower"
    ELSE IF is_uppercase(s[to]) THEN "upper"
    ELSE LastCased(s, from, to - 1)

\* The first position of the run of alphanumeric characters that holds i
RECURSIVE PieceStart(_, _)
PieceStart(s, i) ==
    IF i = 1 \/ ~is_alphanumeric(s[i-1]) THEN i ELSE PieceStart(s, i - 1)

\* An alphanumeric position i starts a word when it starts a run of
\* alphanumeric characters, when it is a capital and the last cased
\* character before it in the run is lower-case, or when it is a capital
\* followed by a lower-case letter and the last cased character before it in
\* the run is a capital.
WordStart(s, i) ==
    \/ PieceStart(s, i) = i
    \/ /\ is_uppercase(s[i])
       /\ LastCased(s, PieceStart(s, i), i - 1) = "lower"
    \/ /\ is_uppercase(s[i])
       /\ i < Len(s)
       /\ is_lowercase(s[i+1])
       /\ LastCased(s, PieceStart(s, i), i - 1) = "upper"

WordEnd(s, i) ==
    i = Len(s) \/ ~is_alphanumeric(s[i+1]) \/ WordStart(s, i + 1)

\* What is written for position i
CamelAt(s, i) ==
    IF ~is_alphanumeric(s[i]) THEN <<>>
    ELSE IF WordStart(s, i) /\ \E h \in 1..(i-1) : is_alphanumeric(s[h])
    THEN to_uppercase(s[i])
    ELSE IF s[i] = 931 /\ WordEnd(s, i) THEN <<962>>
    ELSE to_lowercase(s[i])

RECURSIVE CamelUpTo(_, _)
CamelUpTo(s, n) ==
    IF n = 0 THEN <<>> ELSE CamelUpTo(s, n - 1) \o CamelAt(s, n)

CamelByPosition(s) == CamelUpTo(s, Len(s))

\* The transform with a word boundary at every transition between an ASCII
\* digit and a letter as well: a separator is put at each such transition first.
RECURSIVE MarkDigitLetter(_)
MarkDigitLetter(s) ==
    IF Len(s) <= 1 THEN s
    ELSE LET a == s[1]
             b == s[2]
             letter(c) == is_lowercase(c) \/ is_uppercase(c)
         IN  IF (is_ascii_digit(a) /\ letter(b)) \/ (letter(a) /\ is_ascii_digit(b))
             THEN <<a, 95>> \o MarkDigitLetter(Tail(s))
             ELSE <<a>> \o MarkDigitLetter(Tail(s))

CamelWithDigitBoundaries(s) == CamelByPosition(MarkDigitLetter(s))

----------------------------------------------------------------------------
(* Claims *)

\* C1: the result of to_element_name(s) never starts with an ASCII digit,
\* for every input s.
C1_NeverStartsWithDigit ==
    pc = "to_element_name" =>
        ~(result.val # <<>> /\ result.val[1] \in 48..57)

\* C2: for an input whose first character is an ASCII digit,
\* to_element_name returns a newly owned "_" followed by the input unchanged.
C2_DigitBranchPrefixesOnly ==
    (pc = "to_element_name" /\ name # <<>> /\ name[1] \in 48..57) =>
        /\ result.tag = "Owned"
        /\ result.src = "alloc"
        /\ result.val = <<95>> \o name

\* "0_Foo" gives "_0_Foo"
C2_Witness ==
    /\ pc = "to_element_name"
    /\ name = <<48, 95, 70, 111, 111>>
    /\ result.val = <<95, 48, 95, 70, 111, 111>>

\* C3: dom_key(s, Some(r)) is r itself, borrowed from the override, whatever
\* s and r are.
C3_RenameVerbatim ==
    (pc = "dom_key" /\ rename # <<>>) =>
        /\ result.tag = "Borrowed"
        /\ result.src = "rename"
        /\ result.val = rename[1]

\* the override "0_" with the name "A_a"
C3_Witness ==
    /\ pc = "dom_key"
    /\ name = <<65, 95, 97>>
    /\ rename = <<(<<48, 95>>)>>
    /\ result.val = <<48, 95>>

\* C4: dom_key(s, None) returns what to_element_name(s) returns: the same
\* value and the same borrowed-or-owned variant.
C4_NoRenameDelegates ==
    (pc = "dom_key" /\ rename = <<>>) => result = to_element_name(name)

\* dom_key("A_a", None) is the owned "aA"
C4_Witness ==
    /\ pc = "dom_key"
    /\ rename = <<>>
    /\ name = <<65, 95, 97>>
    /\ result.tag = "Owned"
    /\ result.val = <<97, 65>>

\* C5 as stated: for an input that does not start with an ASCII digit the
\* value of to_element_name is the transform that starts a new word at case
\* changes, at separators and at digit/letter transitions.
C5_DigitLetterBoundaries ==
    (pc = "to_element_name" /\ ~(name # <<>> /\ name[1] \in 48..57)) =>
        result.val = CamelWithDigitBoundaries(name)

\* C5 amended: for an input that does not start with an ASCII digit the
\* value of to_element_name is the transform that drops every
\* non-alphanumeric character and starts a new word after each of them, at a
\* capital whose last cased predecessor is lower-case, and at the last
\* capital of a run of capitals that a lower-case letter follows; the first
\* word is lower-cased, the later ones capitalized.  A digit/letter
\* transition starts no word.
C5_CamelTransform ==
    (pc = "to_element_name" /\ ~(name # <<>> /\ name[1] \in 48..57)) =>
        result.val = CamelByPosition(name)

\* "FOO_BAR" gives "fooBar"
C5_Witness ==
    /\ pc = "to_element_name"
    /\ name = <<70, 79, 79, 95, 66, 65, 82>>
    /\ result.val = <<102, 111, 111, 66, 97, 114>>

\* C6: to_element_name returns the input itself, borrowed, exactly when the
\* input does not start with an ASCII digit and its lower-camel-case
\* transform equals it; otherwise the result is a newly owned string.
C6_BorrowedIffUnchanged ==
    pc = "to_element_name" =>
        IF ~(name # <<>> /\ name[1] \in 48..57) /\ AsLowerCamelCase(name) = name
        THEN result = [tag |-> "Borrowed", src |-> "name", val |-> name]
        ELSE result.tag = "Owned" /\ result.src = "alloc"

\* "myPlaylist" comes back borrowed
C6_Witness ==
    /\ pc = "to_element_name"
    /\ name = <<109, 121, 80, 108, 97, 121, 108, 105, 115, 116>>
    /\ result.tag = "Borrowed"
    /\ result.val = name

\* C7: the underscore-prefix branch is taken exactly when the first
\* character is one of '0'..'9'; any other input, one starting with a
\* non-ASCII digit included, gets its lower-camel-case transform.
C7_PrefixIffAsciiDigit ==
    pc = "to_element_name" =>
        /\ (result.val = <<95>> \o name) <=> (name # <<>> /\ name[1] \in 48..57)
        /\ ~(name # <<>> /\ name[1] \in 48..57) => result.val = AsLowerCamelCase(name)

\* an Arabic-Indic digit then 'A': no underscore, the value is the digit
\* then 'a'
C7_Witness ==
    /\ pc = "to_element_name"
    /\ name = <<1635, 65>>
    /\ result.val = <<1635, 97>>

\* C8: every call of to_element_name and of dom_key returns a string value,
\* borrowed or owned; none ends in a panic.
C8_Total ==
    pc # "start" =>
        /\ result.tag \in {"Borrowed", "Owned"}
        /\ result.val \in Seq(Nat)

\* dom_key("", None) returns the empty string, borrowed
C8_Witness ==
    /\ pc = "dom_key"
    /\ name = <<>>
    /\ rename = <<>>
    /\ result.tag = "Borrowed"
    /\ result.val = <<>>

\* C9: for an input s starting with an ASCII digit, a second
\* application of to_element_name gives "__" followed by s.
C9_DoubleUnderscore ==
    (pc = "reapplied" /\ orig # <<>> /\ orig[1] \in 48..57) =>
        result.val = <<95, 95>> \o orig

\* C10: for an input that does not start with an ASCII digit, a second
\* application of to_element_name returns the first result again, borrowed.
C10_Idempotent ==
    (pc = "reapplied" /\ ~(orig # <<>> /\ orig[1] \in 48..57)) =>
        /\ result.val = name
        /\ result.tag = "Borrowed"

====
